---------------------------- MODULE Spec2Model ----------------------------
(***************************************************************************)
(* A model of pysspm, the simple scientific project manager:               *)
(*   - the two key-value stores (MetadataParser, ConfigurationParser),     *)
(*     which keep a configparser.ConfigParser in memory and write it to an *)
(*     INI file after every set;                                           *)
(*   - the registry counter <root>/.projects (GlobalMetadataManager);      *)
(*   - project creation (cli_project.create, Project.init) and the scan of *)
(*     the root/<year>/<month>/<project> tree (ProjectManager).            *)
(*                                                                         *)
(* Strings whose content the code inspects (values, file lines, folder     *)
(* names) are sequences of one-character strings; a key "a.b.c" is the     *)
(* sequence of its dot-separated parts, <<"a", "b", "c">>, which is what   *)
(* item.split(".") makes of it.                                            *)
(***************************************************************************)
EXTENDS Integers, Sequences, FiniteSets, TLC

VARIABLES
    kind,       \* which store the store operations act on: "metadata" | "config"
    mem,        \* the store's ConfigParser in memory: (section, option) -> raw value
    mem2,       \* the same for a second parser object made on the same file
    file,       \* the store's INI file: [exists, data]
    sret,       \* outcome of the last store operation
    lastSet,    \* history: per declared key, the value of its last successful set
    nops,       \* number of store operations performed so far
    counter,    \* the file <root>/.projects: [exists, line]
    tree,       \* the project folders under root: <<year, month, name>> -> folder
    extdirs,    \* the folders <<year, month, name>> under the external data root
    env,        \* the configuration, the machine and the options of create
    ret,        \* outcome of the last registry operation
    hist,       \* history of the registry operations
    procs,      \* two create commands run side by side: their positions
    obj         \* a Project object in the hands of a caller

storeVars == <<kind, mem, mem2, file, sret, lastSet, nops>>
regVars == <<counter, tree, extdirs, env, ret, hist, procs, obj>>
vars ==
    <<kind, mem, mem2, file, sret, lastSet, nops,
      counter, tree, extdirs, env, ret, hist, procs, obj>>

----------------------------------------------------------------------------
(* Bounds of the model.                                                    *)

\* Store operations (set, get, reopen) in one behaviour.
MaxOps == 2

----------------------------------------------------------------------------
(* Strings.                                                                *)

Range(s) == {s[i] : i \in 1..Len(s)}

Drop(s, n) == SubSeq(s, n + 1, Len(s))

\* str.startswith
StartsWith(s, p) == Len(s) >= Len(p) /\ SubSeq(s, 1, Len(p)) = p

RECURSIVE LStrip(_)
LStrip(s) ==
    IF s # <<>> /\ Head(s) = " " THEN LStrip(Tail(s)) ELSE s

RECURSIVE RStrip(_)
RStrip(s) ==
    IF s # <<>> /\ s[Len(s)] = " " THEN RStrip(SubSeq(s, 1, Len(s) - 1)) ELSE s

\* str.strip, as configparser applies it to every value it reads from a file
Strip(s) == RStrip(LStrip(s))

----------------------------------------------------------------------------
(* configparser.ConfigParser, as the two stores use it: the default         *)
(* BasicInterpolation checks a value when it is set and expands it when it  *)
(* is read, and option names go through optionxform (str.lower).           *)

\* value.replace("%%", ""): the occurrences are taken from left to right
RECURSIVE RemovePercentPairs(_)
RemovePercentPairs(s) ==
    IF s = <<>> THEN <<>>
    ELSE IF Len(s) >= 2 /\ s[1] = "%" /\ s[2] = "%"
         THEN RemovePercentPairs(Drop(s, 2))
         ELSE <<Head(s)>> \o RemovePercentPairs(Tail(s))

\* BasicInterpolation.before_set: a "%" outside "%%" is refused with ValueError
\* (a reference "%(name)s" is legal too; no value of the model holds a "(")
BeforeSetOk(v) == "%" \notin Range(RemovePercentPairs(v))

\* BasicInterpolation.before_get: "%%" reads as "%", a lone "%" is an error
RECURSIVE Interpolate(_)
Interpolate(s) ==
    IF s = <<>> THEN [err |-> "none", val |-> <<>>]
    ELSE IF Head(s) # "%"
         THEN LET r == Interpolate(Tail(s))
              IN  [err |-> r.err, val |-> <<Head(s)>> \o r.val]
         ELSE IF Len(s) >= 2 /\ s[2] = "%"
              THEN LET r == Interpolate(Drop(s, 2))
                   IN  [err |-> r.err, val |-> <<"%">> \o r.val]
              ELSE [err |-> "InterpolationSyntaxError", val |-> <<>>]

\* ConfigParser.optionxform: option names are lower-cased (section names
\* are not); the only option name of the model with capitals is "TITLE"
optionxform(o) == IF o = "TITLE" THEN "title" ELSE o

\* ConfigParser.sections()
Sections(m) == {k[1] : k \in DOMAIN m}

----------------------------------------------------------------------------
(* The schemas of the two stores.                                          *)

StoreKinds == {"metadata", "config"}

\* str(self._version)
VersionString == <<"1">>

TrueString == <<"T", "r", "u", "e">>

\* MetadataParser.valid_keys
MetadataValidKeys ==
    { <<"metadata", "version">>,
      <<"project", "title">>, <<"project", "start_date">>,
      <<"project", "end_date">>, <<"project", "status">>,
      <<"project", "description">>,
      <<"user", "name">>, <<"user", "email">>, <<"user", "group">>,
      <<"user", "collaborators">> }

\* ConfigurationParser.valid_keys
ConfigValidKeys ==
    { <<"projects", "location">>, <<"projects", "external_data">>,
      <<"tools", "git_path">>, <<"tools", "use_git">>,
      <<"tools", "git_ignore_data">> }

ValidKeys(k) == IF k = "metadata" THEN MetadataValidKeys ELSE ConfigValidKeys

\* MetadataParser._write_default: the sections and options of a new file
MetadataDefault ==
    [k \in MetadataValidKeys |->
        IF k = <<"metadata", "version">> THEN VersionString
        ELSE IF k \in { <<"user", "email">>, <<"user", "group">>,
                        <<"user", "collaborators">> } THEN TrueString
        ELSE <<>>]

\* Defaults that keep a projects location, which C16 rules out
DefaultsWithLocation ==
    [k \in ConfigValidKeys \cup
           { <<"metadata", "version">>, <<"projects", "template">> } |->
        IF k = <<"metadata", "version">> THEN VersionString ELSE <<"J", "ö">>]

\* ConfigurationParser._write_default
ConfigDefault ==
    [k \in ConfigValidKeys \cup
           { <<"metadata", "version">>, <<"projects", "template">> } |->
        IF k = <<"metadata", "version">> THEN VersionString
        ELSE IF k = <<"projects", "template">>
             THEN <<"<", "T", "O", "_", "B", "E", "_", "D", "E", "S", "I",
                    "G", "N", "E", "D", ">">>
        ELSE IF k \in { <<"tools", "use_git">>, <<"tools", "git_ignore_data">> }
             THEN TrueString
        ELSE <<>>]

WriteDefault(k) == IF k = "metadata" THEN MetadataDefault ELSE ConfigDefault

\* ConfigParser.read of a file ConfigParser.write wrote: every value comes
\* back stripped of leading and trailing blanks
ReadFile(data) == [k \in DOMAIN data |-> Strip(data[k])]

----------------------------------------------------------------------------
(* __getitem__ and __setitem__ (the same code in both stores).             *)

\* The error of the key lookup both methods start with, "none" if it passes.
\* parts[1] is evaluated only after parts[0] passed the section test, so a
\* key without a dot that names a section ends in IndexError.
KeyLookup(m, parts) ==
    IF parts[1] \notin Sections(m) THEN "ValueError"
    ELSE IF Len(parts) < 2 THEN "IndexError"
    ELSE IF <<parts[1], optionxform(parts[2])>> \notin DOMAIN m THEN "ValueError"
    ELSE "none"

\* The (section, option) a key that passed the lookup addresses
Addressed(parts) == <<parts[1], optionxform(parts[2])>>

GetItem(m, parts) ==
    LET e == KeyLookup(m, parts)
    IN  IF e # "none" THEN [err |-> e, val |-> <<>>]
        ELSE Interpolate(m[Addressed(parts)])

\* The error of a set, "none" if the value is stored
SetItemError(m, parts, v) ==
    LET e == KeyLookup(m, parts)
    IN  IF e # "none" THEN e
        ELSE IF ~BeforeSetOk(v) THEN "ValueError"
        ELSE "none"

\* The store in memory after a set
SetItem(m, parts, v) ==
    IF SetItemError(m, parts, v) # "none" THEN m
    ELSE [m EXCEPT ![Addressed(parts)] = v]

----------------------------------------------------------------------------
(* The store operations.                                                   *)

\* ProjectStatus.is_open: the status values of a project not finished
OpenStatuses ==
    { <<"n", "e", "w">>,
      <<"f", "e", "e", "d", "b", "a", "c", "k">>,
      <<"i", "n", " ", "p", "r", "o", "g", "r", "e", "s", "s">>,
      <<"w", "a", "i", "t", "i", "n", "g", " ", "f", "o", "r", " ", "d", "a", "t", "a">>,
      <<"o", "n", " ", "h", "o", "l", "d">> }

\* ProjectStatus
StatusValues ==
    { <<"n", "e", "w">>,
      <<"f", "e", "e", "d", "b", "a", "c", "k">>,
      <<"i", "n", " ", "p", "r", "o", "g", "r", "e", "s", "s">>,
      <<"w", "a", "i", "t", "i", "n", "g", " ", "f", "o", "r", " ", "d", "a", "t", "a">>,
      <<"o", "n", " ", "h", "o", "l", "d">>,
      <<"s", "u", "p", "e", "r", "s", "e", "d", "e", "d">>,
      <<"d", "r", "o", "p", "p", "e", "d">>,
      <<"c", "o", "m", "p", "l", "e", "t", "e", "d">> }

\* The values the store operations are tried with: empty, non-ASCII, with
\* percent signs, with a leading blank, a status and a string that is none
Values ==
    { <<>>, <<"J", "ö">>, <<"%", "%">>, <<"a", "%">>, <<" ", "a">>,
      <<"n", "e", "w">>, <<"b", "a", "d">> }

\* Keys outside the schema: no dot, extra parts, unknown section or option,
\* an option in capitals
UndeclaredKeys(k) ==
    IF k = "metadata"
    THEN { <<"project">>, <<"title">>, <<"">>, <<"project", "title", "x">>,
           <<"bogus", "title">>, <<"project", "bogus">>, <<"project", "TITLE">> }
    ELSE { <<"projects">>, <<"location">>, <<"projects", "location", "x">>,
           <<"bogus", "location">>, <<"projects", "bogus">> }

Keys(k) == ValidKeys(k) \cup UndeclaredKeys(k)

NoSet == [has |-> FALSE, v |-> <<>>]

\* No backup file was written
NoBackup == [has |-> FALSE, data |-> <<>>]

\* store[key] = v, then the whole store is written to the file
StoreSet(parts, v) ==
    /\ nops < MaxOps
    /\ LET e == SetItemError(mem, parts, v)
       IN  /\ mem' = SetItem(mem, parts, v)
           /\ file' = IF e = "none"
                      THEN [exists |-> TRUE, data |-> SetItem(mem, parts, v)]
                      ELSE file
           /\ sret' = [op |-> "set", key |-> parts, value |-> v,
                       err |-> e, val |-> <<>>, backup |-> NoBackup]
           /\ lastSet' = IF e = "none" /\ Addressed(parts) \in DOMAIN lastSet
                         THEN [lastSet EXCEPT ![Addressed(parts)] =
                                   [has |-> TRUE, v |-> v]]
                         ELSE lastSet
    /\ nops' = nops + 1
    /\ UNCHANGED <<kind, mem2, regVars>>

\* store[key]
StoreGet(parts) ==
    /\ nops < MaxOps
    /\ LET r == GetItem(mem, parts)
       IN  sret' = [op |-> "get", key |-> parts, value |-> <<>>,
                    err |-> r.err, val |-> r.val, backup |-> NoBackup]
    /\ nops' = nops + 1
    /\ UNCHANGED <<kind, mem, mem2, file, lastSet, regVars>>

\* A new parser object on the same file (every command of cli_project builds
\* its own MetadataParser): the constructor writes the defaults if there is
\* no file, then reads the file
StoreOpen ==
    /\ nops < MaxOps
    /\ LET f == IF file.exists THEN file
                ELSE [exists |-> TRUE, data |-> WriteDefault(kind)]
       IN  /\ file' = f
           /\ mem' = ReadFile(f.data)
    /\ sret' = [op |-> "open", key |-> <<>>, value |-> <<>>,
                err |-> "none", val |-> <<>>, backup |-> NoBackup]
    /\ nops' = nops + 1
    /\ UNCHANGED <<kind, mem2, lastSet, regVars>>

\* The file a new parser object finds after its constructor
FileAfterOpen(k, f) ==
    IF f.exists THEN f ELSE [exists |-> TRUE, data |-> WriteDefault(k)]

\* lastSet after the keys of ks were set to the values they have in m
Recorded(ls, m, ks) ==
    [key \in DOMAIN ls |->
        IF key \in ks THEN [has |-> TRUE, v |-> m[key]] ELSE ls[key]]

\* The fields MetadataParser._validate wants non-empty
MandatoryKeys ==
    { <<"project", "title">>, <<"user", "name">>, <<"user", "email">>,
      <<"user", "group">> }

\* A store any field of which may be blanked, which C11 rules out
AnyCanBeEmpty(parts) == TRUE

\* MetadataParser.can_be_empty
can_be_empty(parts) == parts \notin MandatoryKeys

\* The command "project set" on the project the store belongs to: a new
\* MetadataParser on the folder, the test for an empty value, the set
SetMetadata(parts, v) ==
    /\ kind = "metadata"
    /\ nops < MaxOps
    /\ LET f == FileAfterOpen(kind, file)
           opened == ReadFile(f.data)
           refused == v = <<>> /\ ~can_be_empty(parts)
           e == IF refused THEN "EmptyNotAllowed" ELSE SetItemError(opened, parts, v)
           after == IF refused THEN opened ELSE SetItem(opened, parts, v)
       IN  /\ mem' = after
           /\ file' = IF e = "none" THEN [exists |-> TRUE, data |-> after] ELSE f
           /\ sret' = [op |-> "project set", key |-> parts, value |-> v,
                       err |-> e, val |-> <<>>, backup |-> NoBackup]
           /\ lastSet' = IF e = "none" /\ Addressed(parts) \in DOMAIN lastSet
                         THEN Recorded(lastSet, after, {Addressed(parts)})
                         ELSE lastSet
    /\ nops' = nops + 1
    /\ UNCHANGED <<kind, mem2, regVars>>

\* if mode not in ["now", "latest"]
CloseModes == {"now", "latest"}

\* A close that leaves the project open, which C14 rules out
ReopenedStatus == <<"n", "e", "w">>

\* The status close sets when none is asked for
DefaultFinalStatus == <<"c", "o", "m", "p", "l", "e", "t", "e", "d">>

\* The end date close stores: today's date for "now", the day of the latest
\* modification of a file of the project for "latest"
EndDate(mode) ==
    IF mode = "now"
    THEN <<"1", "5", "/", "0", "1", "/", "2", "0", "2", "3">>
    ELSE <<"0", "1", "/", "0", "6", "/", "2", "0", "2", "2">>

\* A close that stores the end date before it looks at the status, which
\* C13 rules out
CloseDateFirst(m, mode, status) ==
    IF mode \notin CloseModes THEN [err |-> "InvalidArgument", data |-> m]
    ELSE IF status \notin StatusValues
    THEN [err |-> "InvalidEnum",
          data |-> [m EXCEPT ![<<"project", "end_date">>] = EndDate(mode)]]
    ELSE [err |-> "none",
          data |-> [m EXCEPT ![<<"project", "end_date">>] = EndDate(mode),
                             ![<<"project", "status">>] = status]]

\* ProjectManager.close(project_folder, mode, status) on the metadata m of
\* the project: [err, data]
ProjectManager_close(m, mode, status) ==
    IF mode \notin CloseModes THEN [err |-> "InvalidArgument", data |-> m]
    ELSE IF status \notin StatusValues THEN [err |-> "InvalidEnum", data |-> m]
    ELSE [err |-> "none",
          data |-> [m EXCEPT ![<<"project", "end_date">>] = EndDate(mode),
                             ![<<"project", "status">>] = status]]

\* The outcome of a close on the store whose file is f: the parser object
\* close has made, the file (every set of the parser writes it) and the
\* history of the sets.  value is the final status asked for, <<>> if none;
\* val is the status the project had.
CloseOutcome(f, r, mode, status) ==
    /\ mem' = r.data
    /\ file' = IF r.err = "none" \/ r.data # ReadFile(f.data)
               THEN [exists |-> TRUE, data |-> r.data]
               ELSE f
    /\ sret' = [op |-> "close", key |-> <<mode>>, value |-> status,
                err |-> r.err,
                val |-> ReadFile(f.data)[<<"project", "status">>],
                backup |-> NoBackup]
    /\ lastSet' = IF r.err = "none"
                  THEN Recorded(lastSet, r.data,
                                { <<"project", "end_date">>, <<"project", "status">> })
                  ELSE lastSet

\* ProjectManager.close called with a final status
Close(mode, status) ==
    /\ kind = "metadata"
    /\ nops < MaxOps
    /\ LET f == FileAfterOpen(kind, file)
       IN  CloseOutcome(f, ProjectManager_close(ReadFile(f.data), mode, status),
                        mode, status)
    /\ nops' = nops + 1
    /\ UNCHANGED <<kind, mem2, regVars>>

\* The command "project close <id> <mode>": the mode is tested first, then
\* ProjectManager.close(project_folder, mode) is called, and any exception
\* ends the command with an error message
CloseProject(mode) ==
    /\ kind = "metadata"
    /\ nops < MaxOps
    /\ IF mode \notin CloseModes
       THEN /\ sret' = [op |-> "close", key |-> <<mode>>, value |-> <<>>,
                        err |-> "InvalidArgument", val |-> <<>>,
                        backup |-> NoBackup]
            /\ UNCHANGED <<mem, file, lastSet>>
       ELSE LET f == FileAfterOpen(kind, file)
            IN  CloseOutcome(f, ProjectManager_close(ReadFile(f.data), mode,
                                                     DefaultFinalStatus),
                             mode, <<>>)
    /\ nops' = nops + 1
    /\ UNCHANGED <<kind, mem2, regVars>>

FalseString == <<"F", "a", "l", "s", "e">>

\* What a value names on disk when it is taken as the path of a folder: one
\* value of the model names a regular file, one a folder that does not exist
\* yet and can be made, the others a folder
PathState(v) ==
    IF v = <<"b", "a", "d">> THEN "file"
    ELSE IF v = <<"n", "e", "w">> THEN "absent"
    ELSE "dir"

\* MetadataParser._validate: [err, val]
MetadataValidate(m) ==
    IF GetItem(m, <<"metadata", "version">>).val # VersionString
    THEN [err |-> "none", val |-> FalseString]
    ELSE IF \E key \in MandatoryKeys : GetItem(m, key).val = <<>>
    THEN [err |-> "none", val |-> FalseString]
    ELSE [err |-> "none", val |-> TrueString]

\* ConfigurationParser._validate: [err, val].  location.mkdir(parents=True,
\* exist_ok=True) raises if the path is that of a regular file.
ConfigValidate(m) ==
    LET location == GetItem(m, <<"projects", "location">>).val
    IN  IF GetItem(m, <<"metadata", "version">>).val # VersionString
        THEN [err |-> "none", val |-> FalseString]
        ELSE IF location = <<>> THEN [err |-> "none", val |-> FalseString]
        ELSE IF PathState(location) = "file"
        THEN [err |-> "FileExistsError", val |-> <<>>]
        ELSE [err |-> "none", val |-> TrueString]

Validate(k, m) == IF k = "metadata" THEN MetadataValidate(m) ELSE ConfigValidate(m)

\* store.is_valid
StoreIsValid ==
    /\ nops < MaxOps
    /\ LET r == Validate(kind, mem)
       IN  sret' = [op |-> "is_valid", key |-> <<>>, value |-> <<>>,
                    err |-> r.err, val |-> r.val, backup |-> NoBackup]
    /\ nops' = nops + 1
    /\ UNCHANGED <<kind, mem, mem2, file, lastSet, regVars>>

\* ConfigurationParser.reset: the file is copied to a backup named after
\* the time, then _write_default sets every option in memory and writes
\* the file
StoreReset ==
    /\ kind = "config"
    /\ nops < MaxOps
    /\ mem' = ConfigDefault
    /\ file' = [exists |-> TRUE, data |-> ConfigDefault]
    /\ sret' = [op |-> "reset", key |-> <<>>, value |-> <<>>,
                err |-> "none", val |-> <<>>,
                backup |-> IF file.exists THEN [has |-> TRUE, data |-> file.data]
                           ELSE NoBackup]
    /\ lastSet' = [key \in DOMAIN lastSet |-> NoSet]
    /\ nops' = nops + 1
    /\ UNCHANGED <<kind, mem2, regVars>>

----------------------------------------------------------------------------
(* Integers and their decimal form.                                        *)

Digits == <<"0", "1", "2", "3", "4", "5", "6", "7", "8", "9">>

IsDigit(c) == \E i \in 1..Len(Digits) : Digits[i] = c

DigitValue(c) == (CHOOSE i \in 1..Len(Digits) : Digits[i] = c) - 1

RECURSIVE DigitsValue(_)
DigitsValue(s) ==
    IF s = <<>> THEN 0
    ELSE DigitsValue(SubSeq(s, 1, Len(s) - 1)) * 10 + DigitValue(s[Len(s)])

\* int(s): blanks around are dropped, one sign may lead, the rest is digits
\* (the underscores int also accepts occur in no string of the model)
ParseInt(s0) ==
    LET s == Strip(s0)
        signed == s # <<>> /\ Head(s) \in {"-", "+"}
        body == IF signed THEN Tail(s) ELSE s
    IN  IF body # <<>> /\ \A i \in 1..Len(body) : IsDigit(body[i])
        THEN [ok |-> TRUE,
              val |-> IF signed /\ Head(s) = "-" THEN 0 - DigitsValue(body)
                      ELSE DigitsValue(body)]
        ELSE [ok |-> FALSE, val |-> 0]

RECURSIVE NatToStr(_)
NatToStr(n) ==
    IF n < 10 THEN <<Digits[n + 1]>>
    ELSE NatToStr(n \div 10) \o <<Digits[(n % 10) + 1]>>

\* str(n), f"{n}"
IntToStr(n) == IF n < 0 THEN <<"-">> \o NatToStr(0 - n) ELSE NatToStr(n)

RECURSIVE ZeroFill(_, _)
ZeroFill(s, w) == IF Len(s) >= w THEN s ELSE ZeroFill(<<"0">> \o s, w)

\* f"{n:0w}": zeros go between the sign and the digits
ZeroPadded(n, w) ==
    IF n < 0 THEN <<"-">> \o ZeroFill(NatToStr(0 - n), w - 1)
    ELSE ZeroFill(NatToStr(n), w)

\* a in b, for strings
Contains(b, a) ==
    \E i \in 0..(Len(b) - Len(a)) : SubSeq(b, i + 1, i + Len(a)) = a

----------------------------------------------------------------------------
(* GlobalMetadataManager: the counter file <root>/.projects.               *)

LastIdPrefix == <<"l", "a", "s", "t", "_", "i", "d", "=">>

\* line[8:]
PrefixLength == 8

\* The id a missing counter file is created with
InitialLastId == -1

\* The cap on last_id that keeps the model finite
MaxId == 1

CounterLine(n) == LastIdPrefix \o IntToStr(n)

\* A read that takes the id it returns (the counter is advanced by the
\* read itself), which is what C25 says the code does not do
Allocated(c) ==
    IF c.exists
    THEN [exists |-> TRUE,
          line |-> CounterLine(ParseInt(Drop(Strip(c.line), PrefixLength)).val + 1)]
    ELSE [exists |-> TRUE, line |-> CounterLine(InitialLastId + 1)]

\* A counter file that is written anew at every read, which C20 rules out
Repaired(c) == [exists |-> TRUE, line |-> CounterLine(InitialLastId)]

\* The counter file as get_last_id leaves it: created if missing
Touched(c) ==
    IF c.exists THEN c
    ELSE [exists |-> TRUE, line |-> CounterLine(InitialLastId)]

\* get_last_id: [err, val]
get_last_id(c) ==
    LET line == Strip(Touched(c).line)
        n == ParseInt(Drop(line, PrefixLength))
    IN  IF ~StartsWith(line, LastIdPrefix) THEN [err |-> "ValueError", val |-> 0]
        ELSE IF ~n.ok THEN [err |-> "ValueError", val |-> 0]
        ELSE [err |-> "none", val |-> n.val]

\* An advance that skips an id, which C3 rules out
NextIdSkips(last) == last + 2

\* An advance that steps back, which C4 rules out
NextIdBack(last) == last - 1

\* next_id = last_id + 1
NextId(last) == last + 1

\* update_last_id: the counter file afterwards
update_last_id(c) ==
    LET r == get_last_id(c)
    IN  IF r.err # "none" THEN Touched(c)
        ELSE [exists |-> TRUE, line |-> CounterLine(NextId(r.val))]

----------------------------------------------------------------------------
(* Project: the folder root/<year>/<month>/<project_dir> and what            *)
(* Project.init puts into it.                                               *)
(*                                                                          *)
(* A folder is a record:                                                    *)
(*   subdirs   which of the fixed sub-folders exist                         *)
(*   dotmeta   metadata/.metadata.ini is a file                             *)
(*   meta      metadata/metadata.ini: [state, data], state "absent", "ok"   *)
(*             or "corrupt" (a file configparser cannot parse)              *)
(*   descr     metadata/description.md: [exists, text]                      *)
(*   gitignore .gitignore is a file                                         *)
(*   vcs       the git commands run in the folder, in order                 *)

\* Project._create_folder_structure: the folders it makes ("code" comes with
\* its children, mkdir(parents=True))
Subfolders ==
    { "metadata", "data", "results", "code", "code/extern", "code/matlab",
      "code/python", "code/macros", "code/notebooks", "code/ilastik",
      "references" }

NoMeta == [state |-> "absent", data |-> MetadataDefault]

NoFolder ==
    [subdirs |-> {}, dotmeta |-> FALSE, meta |-> NoMeta,
     descr |-> [exists |-> FALSE, text |-> <<>>],
     gitignore |-> FALSE, vcs |-> <<>>]

\* The folder at path p, NoFolder if there is none
FolderAt(t, p) == IF p \in DOMAIN t THEN t[p] ELSE NoFolder

\* The tree with folder f at path p
WithFolder(t, p, f) ==
    [q \in DOMAIN t \cup {p} |-> IF q = p THEN f ELSE t[q]]

\* f"P_{project_id:04}"
IdWidth == 4

ProjectDir(id) == <<"P", "_">> \o ZeroPadded(id, IdWidth)

\* project_id = last_id + 1
ProjectId(last) == last + 1

\* PARENT_DIR / str(year) / str(month) / project_dir
ProjectRootDir(date, dir) == <<IntToStr(date.year), IntToStr(date.month), dir>>

\* An external data folder without the month level, which C21 rules out
ExternDataDirNoMonth(date, dir) == <<IntToStr(date.year), dir>>

\* Path(extern_data_dir).resolve() / YEAR / MONTH / project_dir: the folder
\* under the external data root
ExternDataDir(date, dir) == <<IntToStr(date.year), IntToStr(date.month), dir>>

\* TODAY.strftime("%d/%m/%Y")
StartDate(date) ==
    ZeroPadded(date.day, 2) \o <<"/">> \o ZeroPadded(date.month, 2)
        \o <<"/">> \o ZeroPadded(date.year, 4)

\* An init that takes a folder without metadata for none and completes it,
\* which C26 rules out
TargetIsComplete(t, p) == p \in DOMAIN t /\ t[p].meta.state # "absent"

\* An init that does not look at the target folder, which C5 rules out
TargetNeverExists(t, p) == FALSE

\* self.PROJECT_ROOT_DIR.exists()
TargetExists(t, p) == p \in DOMAIN t

\* Project.__init__: the value of self.git_path.  With no configured path it
\* is what "which git" finds, None if nothing; a configured path is kept
\* only if it is a file, and self.git_path stays "" otherwise.
GitPath(cfg) ==
    IF ~cfg.git_cfg THEN (IF cfg.git_on_path THEN "Path" ELSE "None")
    ELSE (IF cfg.git_is_file THEN "Path" ELSE "")

\* MetadataParser(folder): the metadata file after the constructor, which
\* writes the defaults if there is no file; a corrupt file makes read raise
MetadataParser_init(meta) ==
    IF meta.state = "absent" THEN [state |-> "ok", data |-> MetadataDefault]
    ELSE meta

\* The fields _write_metadata_to_file sets, in its order
InitialFields(a, date) ==
    << << <<"project", "title">>, a.title >>,
       << <<"project", "start_date">>, StartDate(date) >>,
       << <<"project", "end_date">>, <<>> >>,
       << <<"project", "status">>, <<"n", "e", "w">> >>,
       << <<"user", "name">>, a.user_name >>,
       << <<"user", "email">>, a.user_email >>,
       << <<"user", "group">>, a.user_group >>,
       << <<"user", "collaborators">>, <<>> >> >>

\* The sets of a list of (key, value), each written to the file at once; the
\* first one that raises ends the list: [err, data]
RECURSIVE SetAll(_, _)
SetAll(m, kvs) ==
    IF kvs = <<>> THEN [err |-> "none", data |-> m]
    ELSE LET e == SetItemError(m, Head(kvs)[1], Head(kvs)[2])
         IN  IF e # "none" THEN [err |-> e, data |-> m]
             ELSE SetAll(SetItem(m, Head(kvs)[1], Head(kvs)[2]), Tail(kvs))

\* Project._write_metadata_to_file: [err, meta]
write_metadata_to_file(meta, a, date) ==
    LET opened == MetadataParser_init(meta)
    IN  IF opened.state = "corrupt" THEN [err |-> "ParsingError", meta |-> meta]
        ELSE LET r == SetAll(ReadFile(opened.data), InitialFields(a, date))
             IN  [err |-> r.err, meta |-> [state |-> "ok", data |-> r.data]]

\* Project._write_description_to_file: an existing file is kept
write_description_to_file(descr, a) ==
    IF descr.exists THEN descr
    ELSE [exists |-> TRUE, text |-> a.short_descr]

\* A flag that is set as soon as init is called, which C30 rules out
InitFlagAlways(result) == TRUE

\* self._is_init = True is the last statement of init: the flag is set only
\* when init ran to its end
InitFlag(result) == result = "None"

\* Project._init_git_repo: [err, gitignore, vcs].  The commands are run as
\* "git", whatever self.git_path is, so they fail if git is not on the path.
init_git_repo(f, cfg) ==
    IF ~cfg.use_git THEN [err |-> "none", gitignore |-> f.gitignore, vcs |-> f.vcs]
    ELSE IF GitPath(cfg) = ""
         THEN [err |-> "none", gitignore |-> f.gitignore, vcs |-> f.vcs]
    ELSE IF ~cfg.git_on_path
         THEN [err |-> "FileNotFoundError", gitignore |-> TRUE, vcs |-> f.vcs]
    ELSE [err |-> "none", gitignore |-> TRUE,
          vcs |-> f.vcs \o <<"init", "config", "add", "commit">>]

\* Project._set_extern_git_projects: [err, vcs]
set_extern_git_projects(vcs, a, cfg) ==
    IF ~a.extern_git_repos THEN [err |-> "none", vcs |-> vcs]
    ELSE IF ~cfg.git_on_path THEN [err |-> "FileNotFoundError", vcs |-> vcs]
    ELSE [err |-> "none",
          vcs |-> vcs \o <<"submodule add", "add .gitmodules", "commit">>]

\* Project.init for the project at path p with arguments a on day date:
\* [result, err, folder, ext].  result is what init returns: "False" if the
\* folder exists, "None" at its end (the method ends without a return), and
\* "raised" if a step raised err, which leaves what the steps before it did.
\* ext tells whether the external data folder was made.
Project_init(t, p, a, date, cfg) ==
    IF TargetExists(t, p)
    THEN [result |-> "False", err |-> "none", folder |-> FolderAt(t, p), ext |-> FALSE]
    ELSE
      LET f0 == FolderAt(t, p)
          f1 == [f0 EXCEPT !.subdirs = f0.subdirs \cup Subfolders]
          ext == cfg.extern_data
          m == write_metadata_to_file(f1.meta, a, date)
          f2 == [f1 EXCEPT !.meta = m.meta]
          f3 == [f2 EXCEPT !.descr = write_description_to_file(f2.descr, a)]
          g == init_git_repo(f3, cfg)
          f4 == [f3 EXCEPT !.gitignore = g.gitignore, !.vcs = g.vcs]
          x == set_extern_git_projects(f4.vcs, a, cfg)
          f5 == [f4 EXCEPT !.vcs = x.vcs]
      IN  IF m.err # "none"
          THEN [result |-> "raised", err |-> m.err, folder |-> f2, ext |-> ext]
          ELSE IF g.err # "none"
          THEN [result |-> "raised", err |-> g.err, folder |-> f4, ext |-> ext]
          ELSE IF x.err # "none"
          THEN [result |-> "raised", err |-> x.err, folder |-> f5, ext |-> ext]
          ELSE [result |-> "None", err |-> "none", folder |-> f5, ext |-> ext]

----------------------------------------------------------------------------
(* ProjectManager: the scan of the tree.                                    *)

\* if year < 2021
MinYear == 2021

\* if month < 0 or month > 12
MinMonth == 0

MaxMonth == 12

CounterFileName == <<".", "p", "r", "o", "j", "e", "c", "t", "s">>

\* Path(projects_folder).iterdir(): the year folders and the counter file
RootEntries(t, c) ==
    {p[1] : p \in DOMAIN t} \cup (IF c.exists THEN {CounterFileName} ELSE {})

\* ProjectManager._get_year_folders
get_year_folders(t, c) ==
    {y \in RootEntries(t, c) :
        LET year == ParseInt(y) IN year.ok /\ ~(year.val < MinYear)}

\* ProjectManager._get_month_folders
get_month_folders(t, y) ==
    {m \in {p[2] : p \in {q \in DOMAIN t : q[1] = y}} :
        LET month == ParseInt(m)
        IN  month.ok /\ ~(month.val < MinMonth \/ month.val > MaxMonth)}

\* The candidate project folders the two walks visit
Candidates(t, c) ==
    {p \in DOMAIN t :
        p[1] \in get_year_folders(t, c) /\ p[2] \in get_month_folders(t, p[1])}

\* MetadataParser.read: the stored values by key, as get returns them
MetadataParser_read(m) ==
    IF \E k \in DOMAIN m : Interpolate(m[k]).err # "none"
    THEN [err |-> "InterpolationSyntaxError", data |-> m]
    ELSE [err |-> "none", data |-> [k \in DOMAIN m |-> Interpolate(m[k]).val]]

\* The row get_projects appends for the folder at p with metadata d
ProjectRow(p, d) ==
    << p[1], p[2], p[3],
       d[<<"project", "title">>],
       d[<<"user", "name">>],
       d[<<"user", "email">>],
       d[<<"user", "email">>],
       d[<<"project", "status">>] >>

\* A scan that ends at the first candidate that fails to load, which C9
\* rules out
AbortScan(acc, e) == [acc EXCEPT !.err = e]

\* except Exception as e: print(e)
HandleLoadError(acc, e) == acc

\* The body of the innermost loop of get_projects for candidate p.  acc is
\* [tree, rows, err]; filter is <<>> for project_id None, <<id>> otherwise.
ScanCandidate(acc, p, filter) ==
    LET f == acc.tree[p]
        opened == MetadataParser_init(f.meta)
        read == MetadataParser_read(ReadFile(opened.data))
    IN  IF filter # <<>> /\ ~Contains(p[3], filter[1]) THEN acc
        ELSE IF ~f.dotmeta THEN acc
        ELSE IF opened.state = "corrupt" THEN HandleLoadError(acc, "ParsingError")
        ELSE IF read.err # "none"
             THEN HandleLoadError(
                      [acc EXCEPT !.tree = WithFolder(acc.tree, p,
                                               [f EXCEPT !.meta = opened])],
                      read.err)
        ELSE [acc EXCEPT
                 !.tree = WithFolder(acc.tree, p, [f EXCEPT !.meta = opened]),
                 !.rows = acc.rows \cup {ProjectRow(p, read.data)}]

\* The loops of get_projects over the candidates still to visit; an error
\* that is not handled ends them
RECURSIVE ScanFolders(_, _, _)
ScanFolders(acc, todo, filter) ==
    IF todo = {} \/ acc.err # "none" THEN acc
    ELSE LET p == CHOOSE q \in todo : TRUE
         IN  ScanFolders(ScanCandidate(acc, p, filter), todo \ {p}, filter)

\* ProjectManager.get_projects: [tree, rows, err].  The rows are kept as a
\* set: their order is that of iterdir, which no caller relies on.
get_projects(t, c, filter) ==
    ScanFolders([tree |-> t, rows |-> {}, err |-> "none"], Candidates(t, c), filter)

\* ProjectManager.get_project_path_by_id: the folders one of which is
\* returned, the first that iterdir yields
Matching(t, c, id) == {p \in Candidates(t, c) : Contains(p[3], id)}

----------------------------------------------------------------------------
(* The registry operations: the counter, project create, list and lookup.  *)
(*                                                                          *)
(* hist records what the operations so far imply:                           *)
(*   pure     the root was empty at the start and every operation since was *)
(*            a project create that ran to its end, or a list               *)
(*   only     the root was empty at the start and every operation since was *)
(*            a project create, whatever its end, a list or a lookup        *)
(*   partial  the folders of the creates that were stopped before their end *)
(*   created  the folders Project.init has made                             *)
(*   has      get_last_id has returned a value before                       *)
(*   expect   that value, plus one for every update_last_id since           *)
(*   adv      update_last_id has run since get_last_id first returned       *)

NoRet ==
    [op |-> "none", err |-> "none", val |-> 0, path |-> <<>>, init |-> "",
     success |-> FALSE, filter |-> <<>>, rows |-> {}]

\* The days projects are created on
Dates ==
    { [year |-> 2022, month |-> 6, day |-> 1],
      [year |-> 2023, month |-> 1, day |-> 15] }

\* The arguments of project create; extern_git_repos tells whether the list
\* of external repositories names any, and is the same for all the creates
\* of a behaviour (env.extern_repos)
Arguments ==
    [title : {<<"A">>}, user_name : {<<"u">>}, user_email : {<<"e">>},
     user_group : {<<"g">>}, short_descr : {<<"d">>},
     extern_git_repos : {env.extern_repos}]

\* The ids list and lookup are asked for
QueryIds == {ProjectDir(0), <<"1">>}

\* The ids lookup is asked for: the ones above and the full folder name of
\* project 1000
LookupIds == QueryIds \cup {ProjectDir(1000)}

\* GlobalMetadataManager.get_last_id(root)
GetLastId ==
    LET r == get_last_id(counter)
    IN  /\ counter' = Touched(counter)
        /\ ret' = [NoRet EXCEPT !.op = "get_last_id", !.err = r.err, !.val = r.val]
        /\ hist' = IF r.err = "none"
                   THEN [hist EXCEPT !.pure = FALSE, !.only = FALSE,
                                     !.has = TRUE,
                                     !.expect = r.val]
                   ELSE [hist EXCEPT !.pure = FALSE, !.only = FALSE]
        /\ UNCHANGED <<tree, extdirs, env, procs, obj, storeVars>>

\* GlobalMetadataManager.update_last_id(root)
UpdateLastId ==
    LET r == get_last_id(counter)
    IN  /\ r.err = "none" => r.val < MaxId
        /\ counter' = update_last_id(counter)
        /\ ret' = [NoRet EXCEPT !.op = "update_last_id", !.err = r.err]
        /\ hist' = IF r.err = "none" /\ hist.has
                   THEN [hist EXCEPT !.pure = FALSE, !.only = FALSE,
                                     !.adv = TRUE,
                                     !.expect = hist.expect + 1]
                   ELSE [hist EXCEPT !.pure = FALSE, !.only = FALSE]
        /\ UNCHANGED <<tree, extdirs, env, procs, obj, storeVars>>

\* The command "project create" with arguments a, run on day date.  The
\* command ends with the exception if get_last_id or init raises one; it
\* goes on to update_last_id and the success message otherwise, whatever
\* init returned.  (create passes the keyword git_ignore_data, which this
\* Project.__init__ does not declare; the call is taken as the one of the
\* declared parameters.)
Create(a, date) ==
    LET r == get_last_id(counter)
        p == ProjectRootDir(date, ProjectDir(ProjectId(r.val)))
        i == Project_init(tree, p, a, date, env)
        done == r.err = "none" /\ i.result # "raised"
    IN  /\ r.err = "none" => r.val < MaxId
        /\ counter' = IF done THEN update_last_id(Touched(counter))
                      ELSE Touched(counter)
        /\ tree' = IF r.err = "none" /\ i.result # "False"
                   THEN WithFolder(tree, p, i.folder) ELSE tree
        /\ extdirs' = IF r.err = "none" /\ i.ext
                      THEN extdirs \cup {ExternDataDir(date, ProjectDir(ProjectId(r.val)))}
                      ELSE extdirs
        /\ ret' = IF r.err # "none"
                  THEN [NoRet EXCEPT !.op = "create", !.err = r.err]
                  ELSE [NoRet EXCEPT !.op = "create", !.err = i.err,
                                     !.val = ProjectId(r.val), !.path = p,
                                     !.init = i.result, !.success = done]
        /\ hist' = IF r.err # "none" THEN [hist EXCEPT !.pure = FALSE]
                   ELSE [pure |-> hist.pure /\ i.result = "None",
                         only |-> hist.only,
                         partial |-> hist.partial,
                         created |-> IF i.result = "None"
                                     THEN hist.created \cup {p} ELSE hist.created,
                         has |-> TRUE,
                         expect |-> IF done THEN r.val + 1 ELSE r.val,
                         adv |-> hist.adv \/ done]
        /\ UNCHANGED <<env, procs, obj, storeVars>>

\* ProjectManager.get_projects(root, project_id)
GetProjects(filter) ==
    LET g == get_projects(tree, counter, filter)
    IN  /\ tree' = g.tree
        /\ ret' = [NoRet EXCEPT !.op = "get_projects", !.err = g.err,
                                !.filter = filter, !.rows = g.rows]
        /\ UNCHANGED <<counter, extdirs, env, hist, procs, obj, storeVars>>

\* ProjectManager.get_project_path_by_id(root, project_id): path <<>> is ""
GetProjectPathById(id) ==
    /\ \E p \in Matching(tree, counter, id) \cup {<<>>} :
          /\ p = <<>> <=> Matching(tree, counter, id) = {}
          /\ ret' = [NoRet EXCEPT !.op = "get_project_path_by_id",
                                  !.filter = <<id>>, !.path = p]
    /\ UNCHANGED <<counter, tree, extdirs, env, hist, procs, obj, storeVars>>

----------------------------------------------------------------------------
(* The states the operations start from.                                   *)

\* The metadata of a project an earlier release of the tool has left
LegacyMetadata ==
    [k \in MetadataValidKeys |->
        CASE k = <<"metadata", "version">> -> VersionString
          [] k = <<"project", "title">> -> <<"L">>
          [] k = <<"project", "start_date">> -> <<"0", "1", "/", "0", "6", "/", "2", "0", "2", "2">>
          [] k = <<"project", "status">> -> <<"d", "r", "o", "p", "p", "e", "d">>
          [] k = <<"user", "name">> -> <<"n">>
          [] k = <<"user", "email">> -> <<"m">>
          [] k = <<"user", "group">> -> <<"G">>
          [] OTHER -> <<>>]

LegacyFolder(state) ==
    [subdirs |-> Subfolders, dotmeta |-> TRUE,
     meta |-> [state |-> state, data |-> LegacyMetadata],
     descr |-> [exists |-> TRUE, text |-> <<>>],
     gitignore |-> FALSE, vcs |-> <<>>]

\* Folders that may be under root from the start: complete projects under a
\* valid month, a month 0, a month 13, a year 2020 and a month that is no
\* number; one whose metadata.ini cannot be parsed and one that has none;
\* the projects 1000 and 10000, the second with a folder name of five digits
SeedFolders ==
    ( <<IntToStr(2022), IntToStr(6), ProjectDir(0)>> :> LegacyFolder("ok") ) @@
    ( <<IntToStr(2022), IntToStr(6), ProjectDir(1)>> :> LegacyFolder("corrupt") ) @@
    ( <<IntToStr(2022), IntToStr(0), ProjectDir(10)>> :> LegacyFolder("ok") ) @@
    ( <<IntToStr(2022), IntToStr(13), ProjectDir(3)>> :> LegacyFolder("ok") ) @@
    ( <<IntToStr(2020), IntToStr(6), ProjectDir(4)>> :> LegacyFolder("ok") ) @@
    ( <<IntToStr(2022), <<"x">>, ProjectDir(5)>> :> LegacyFolder("ok") ) @@
    ( <<IntToStr(2023), IntToStr(1), ProjectDir(1)>> :> LegacyFolder("absent") ) @@
    ( <<IntToStr(2022), IntToStr(6), ProjectDir(1000)>> :> LegacyFolder("ok") ) @@
    ( <<IntToStr(2023), IntToStr(1), ProjectDir(10000)>> :> LegacyFolder("ok") )

\* The counter file at the start: none, a valid one, and two corrupt ones
CounterSeeds ==
    { [exists |-> FALSE, line |-> <<>>],
      [exists |-> TRUE, line |-> CounterLine(0)],
      [exists |-> TRUE, line |-> LastIdPrefix \o <<"x">>],
      [exists |-> TRUE, line |-> <<"i", "d", "=", "0">>] }

DefaultEnv ==
    [use_git |-> TRUE, git_cfg |-> FALSE, git_is_file |-> FALSE,
     git_on_path |-> TRUE, extern_data |-> FALSE, extern_repos |-> FALSE]

Envs ==
    {e \in [use_git : BOOLEAN, git_cfg : BOOLEAN, git_is_file : BOOLEAN,
            git_on_path : BOOLEAN, extern_data : BOOLEAN,
            extern_repos : BOOLEAN] :
        e.git_is_file => e.git_cfg}

NoSret ==
    [op |-> "none", key |-> <<>>, value |-> <<>>, err |-> "none", val |-> <<>>,
     backup |-> NoBackup]

\* A store right after its constructor found no file
StoreInit(k) ==
    /\ kind = k
    /\ mem = ReadFile(WriteDefault(k))
    /\ mem2 = ReadFile(WriteDefault(k))
    /\ file = [exists |-> TRUE, data |-> WriteDefault(k)]
    /\ sret = NoSret
    /\ lastSet = [key \in ValidKeys(k) |-> NoSet]
    /\ nops = 0

\* The sets of folders a behaviour starts with: none, the two under the
\* valid month, all of them
SeedSets ==
    { {},
      {p \in DOMAIN SeedFolders : p[1] = IntToStr(2022) /\ p[2] = IntToStr(6)},
      DOMAIN SeedFolders }

\* The two create commands that run side by side
Procs == {1, 2}

\* A create command that has not started: pc is its position, last the id
\* it has read, path the folder it targets, init what Project.init returned
NotStarted == [pc |-> "start", last |-> 0, path |-> <<>>, init |-> ""]

\* No Project object yet.  made: the constructor has run; is_init: the
\* flag _is_init; repos: EXTERN_GIT_REPOS names a repository; init: what
\* init returned last, "" before it; ok: an init of the object has run to
\* its end; asked: the last argument of set_extern_git_repos named a
\* repository; calls: the calls of it so far
NoObject ==
    [made |-> FALSE, is_init |-> FALSE, repos |-> FALSE, path |-> <<>>,
     date |-> [year |-> 0, month |-> 0, day |-> 0], init |-> "", ok |-> FALSE,
     asked |-> FALSE, calls |-> 0]

\* Either folders or a counter file are there from the start, under the
\* default configuration, or the root is empty and the configuration is any
RegistryInit ==
    /\ counter \in CounterSeeds
    /\ \E S \in SeedSets :
          /\ tree = [p \in S |-> SeedFolders[p]]
          /\ env \in IF S = {} /\ ~counter.exists THEN Envs ELSE {DefaultEnv}
    /\ extdirs = {}
    /\ ret = NoRet
    /\ procs = [i \in Procs |-> NotStarted]
    /\ obj = NoObject
    /\ hist = [pure |-> tree = <<>> /\ ~counter.exists,
               only |-> tree = <<>> /\ ~counter.exists, created |-> {},
               partial |-> {},
               has |-> FALSE, expect |-> 0, adv |-> FALSE]

Init ==
    /\ StoreInit("metadata")
    /\ RegistryInit

Next ==
    \/ GetLastId
    \/ UpdateLastId
    \/ \E a \in Arguments, date \in Dates : Create(a, date)
    \/ \E filter \in {<<>>} \cup {<<id>> : id \in QueryIds} : GetProjects(filter)
    \/ \E id \in LookupIds : GetProjectPathById(id)

Spec == Init /\ [][Next]_vars

\* The store operations alone, on a store of either kind
InitStore ==
    /\ \E k \in StoreKinds : StoreInit(k)
    /\ counter = [exists |-> FALSE, line |-> <<>>]
    /\ tree = <<>>
    /\ extdirs = {}
    /\ env = DefaultEnv
    /\ ret = NoRet
    /\ procs = [i \in Procs |-> NotStarted]
    /\ obj = NoObject
    /\ hist = [pure |-> TRUE, only |-> TRUE, created |-> {}, partial |-> {},
               has |-> FALSE,
               expect |-> 0,
               adv |-> FALSE]

\* The values the command "project set" is tried with
SetValues == { <<>>, <<"J", "ö">> }

\* The modes and the final statuses close is asked for
Modes == {"now", "latest", "never"}

FinalStatuses ==
    { <<"d", "r", "o", "p", "p", "e", "d">>, <<"n", "e", "w">>, <<"b", "a", "d">> }

NextStore ==
    \/ \E parts \in Keys(kind), v \in Values : StoreSet(parts, v)
    \/ \E parts \in Keys(kind) : StoreGet(parts)
    \/ StoreOpen
    \/ \E parts \in Keys(kind), v \in SetValues : SetMetadata(parts, v)
    \/ \E mode \in Modes, status \in FinalStatuses : Close(mode, status)
    \/ \E mode \in Modes : CloseProject(mode)
    \/ StoreIsValid
    \/ StoreReset

SpecStore == InitStore /\ [][NextStore]_vars

----------------------------------------------------------------------------
(* The properties of the stores (checked under SpecStore).                 *)

\* C1: for every declared key, a get returns exactly the value of the last
\* successful set of that key.
\* The code does not keep it: "%%" is stored and read back as "%".
RoundTrip ==
    (sret.op = "get" /\ sret.key \in ValidKeys(kind) /\ lastSet[sret.key].has)
        => (sret.err = "none" /\ sret.val = lastSet[sret.key].v)

\* C2: a get or a set with a key outside the declared schema fails with
\* ValueError, and the failed set leaves the store in memory and the file
\* as they were.
\* The code does not keep it: "project.title.x" and "project.TITLE" are
\* accepted as "project.title", and "project" ends in IndexError.
UnknownKeyRejected ==
    [][(sret'.op \in {"get", "set"} /\ sret'.key \notin ValidKeys(kind))
          => /\ sret'.err = "ValueError"
             /\ sret'.op = "set" => (mem' = mem /\ file' = file)]_vars

\* C10: a set of project.status to a string that is no status value fails
\* and leaves the stored status as it was.
\* The code does not keep it: __setitem__ stores any string.
InvalidStatusRejected ==
    [][(kind = "metadata" /\ sret'.op = "set"
        /\ sret'.key = <<"project", "status">>
        /\ sret'.value # <<>> /\ sret'.value \notin StatusValues)
          => /\ sret'.err # "none"
             /\ mem'[<<"project", "status">>] = mem[<<"project", "status">>]]_vars

----------------------------------------------------------------------------
(* The properties of the registry (checked under Spec).                    *)

\* C3: once get_last_id has returned a value, every later call returns that
\* value plus the number of advances (update_last_id) in between: the same
\* value with none, one more after one.  project create computes its id,
\* last_id + 1, from the same value.
NextIdStable ==
    [][/\ (hist.has /\ ret'.op = "get_last_id")
            => (ret'.err = "none" /\ ProjectId(ret'.val) = ProjectId(hist.expect))
       /\ (hist.has /\ ret'.op = "create")
            => (ret'.path # <<>> /\ ret'.val = ProjectId(hist.expect))]_vars

\* get_last_id has returned a value again after an advance
NextIdAfterAdvance ==
    /\ ret.op = "get_last_id" /\ ret.err = "none"
    /\ hist.has /\ hist.adv
    /\ ret.val = hist.expect

\* C4: the id stored in <root>/.projects never decreases: no operation turns
\* a counter file that holds an id into one that holds a smaller id, or
\* none.
LastIdNeverDecreases ==
    [][(counter.exists /\ get_last_id(counter).err = "none")
          => /\ counter'.exists
             /\ get_last_id(counter').err = "none"
             /\ get_last_id(counter').val >= get_last_id(counter).val]_vars

\* The stored id has grown past the one a new counter file starts with
LastIdAdvanced ==
    /\ ret.op \in {"update_last_id", "create"}
    /\ counter.exists /\ get_last_id(counter).err = "none"
    /\ get_last_id(counter).val > InitialLastId + 1

\* C5: when the target folder exists, Project.init returns False and
\* nothing under the projects root or the external data root changes.
ExistingTargetUntouched ==
    [][(ret'.op = "create" /\ ret'.path \in DOMAIN tree)
          => (ret'.init = "False" /\ tree' = tree /\ extdirs' = extdirs)]_vars

\* project create has met an existing folder, which is as it was at the start
ExistingTargetMet ==
    /\ ret.op = "create" /\ ret.init = "False"
    /\ ret.path \in DOMAIN SeedFolders
    /\ ret.path \in DOMAIN tree
    /\ tree[ret.path] = SeedFolders[ret.path]

\* The rows of ret that are about the folder at p
RowsOf(p) == {row \in ret.rows : <<row[1], row[2], row[3]>> = p}

\* C6: from an empty root, after n project creates that ran to their end
\* and nothing else, the list has n rows, one for each created project, each
\* with status "new", and each project's stored end_date is empty.
\* The code does not keep it: the list looks for metadata/.metadata.ini,
\* which Project.init never writes, and returns no row.
CreatedAreListed ==
    (ret.op = "get_projects" /\ ret.filter = <<>> /\ hist.pure)
        => /\ Cardinality(ret.rows) = Cardinality(hist.created)
           /\ \A p \in hist.created :
                 /\ \E row \in RowsOf(p) : row[8] = <<"n", "e", "w">>
                 /\ tree[p].meta.data[<<"project", "end_date">>] = <<>>

\* The folder p is under a year >= 2021 and a month in 1..12
UnderValidBranch(p) ==
    /\ ParseInt(p[1]).ok /\ ParseInt(p[1]).val >= 2021
    /\ ParseInt(p[2]).ok /\ ParseInt(p[2]).val >= 1 /\ ParseInt(p[2]).val <= 12

\* C7: list and lookup return only folders under a year >= 2021 and a month
\* in 1..12.
\* The code does not keep it: a folder under month 0 is returned.
OnlyValidBranches ==
    /\ ret.op = "get_projects" => \A row \in ret.rows : UnderValidBranch(row)
    /\ (ret.op = "get_project_path_by_id" /\ ret.path # <<>>)
          => UnderValidBranch(ret.path)

\* The metadata stored in the folder at p, as get returns it
StoredMetadata(p) == MetadataParser_read(ReadFile(tree[p].meta.data)).data

\* C8: every row of the list holds the year, the month and the name of the
\* folder and the stored project.title, user.name, user.email, user.group
\* and project.status, in this order.
\* The code does not keep it: the seventh field is user.email again.
RowFields ==
    ret.op = "get_projects"
        => \A row \in ret.rows :
              LET p == <<row[1], row[2], row[3]>>
                  d == StoredMetadata(p)
              IN  /\ p \in DOMAIN tree
                  /\ row = << p[1], p[2], p[3],
                              d[<<"project", "title">>],
                              d[<<"user", "name">>],
                              d[<<"user", "email">>],
                              d[<<"user", "group">>],
                              d[<<"project", "status">>] >>

\* The candidates the list was asked for
Asked == {p \in Candidates(tree, counter) :
             ret.filter = <<>> \/ Contains(p[3], ret.filter[1])}

\* The metadata of the folder at p can be loaded
Loadable(p) ==
    /\ tree[p].meta.state = "ok"
    /\ MetadataParser_read(ReadFile(tree[p].meta.data)).err = "none"

\* C9: the list never ends in an error; a candidate whose metadata cannot be
\* loaded and a candidate without metadata/.metadata.ini have no row, and
\* every other candidate asked for has its row.
BadCandidateSkipped ==
    ret.op = "get_projects"
        => /\ ret.err = "none"
           /\ \A p \in Asked :
                 IF tree[p].dotmeta /\ Loadable(p)
                 THEN ProjectRow(p, StoredMetadata(p)) \in ret.rows
                 ELSE RowsOf(p) = {}

\* A list over a candidate that cannot be loaded, a candidate without the
\* file and a loadable one, which has its row
BadCandidateMet ==
    /\ ret.op = "get_projects" /\ ret.err = "none"
    /\ \E p \in Asked : tree[p].dotmeta /\ tree[p].meta.state = "corrupt"
    /\ \E p \in Asked : ~tree[p].dotmeta
    /\ \E p \in Asked : tree[p].dotmeta /\ Loadable(p) /\ RowsOf(p) # {}

----------------------------------------------------------------------------
(* The commands on a store (checked under SpecStore).                      *)

\* C11: project set with an empty value is refused for project.title,
\* user.name, user.email and user.group, and the file keeps the stored
\* value; for every other declared key the empty value is stored.
EmptyValueRule ==
    [][(sret'.op = "project set" /\ sret'.value = <<>>
        /\ sret'.key \in MetadataValidKeys)
          => IF sret'.key \in { <<"project", "title">>, <<"user", "name">>,
                                <<"user", "email">>, <<"user", "group">> }
             THEN /\ sret'.err = "EmptyNotAllowed"
                  /\ file' = file
                  /\ mem'[sret'.key] = Strip(file.data[sret'.key])
             ELSE /\ sret'.err = "none"
                  /\ file'.data[sret'.key] = <<>>
                  /\ mem'[sret'.key] = <<>>]_vars

\* An empty title was refused for a project that has a title
EmptyValueRefused ==
    /\ sret.op = "project set" /\ sret.err = "EmptyNotAllowed"
    /\ sret.key = <<"project", "title">>
    /\ file.data[<<"project", "title">>] # <<>>

\* C12: config set refuses the empty string for projects.location and
\* keeps the stored location.
\* The code does not keep it: the empty string is stored like any value.
EmptyLocationRefused ==
    [][(kind = "config" /\ sret'.op = "set"
        /\ sret'.key = <<"projects", "location">> /\ sret'.value = <<>>)
          => /\ sret'.err # "none"
             /\ mem'[<<"projects", "location">>] = mem[<<"projects", "location">>]
             /\ file' = file]_vars

ShouldBeValid ==
    /\ mem[<<"metadata", "version">>] = VersionString
    /\ IF kind = "metadata"
       THEN \A key \in { <<"project", "title">>, <<"user", "name">>,
                         <<"user", "email">>, <<"user", "group">> } :
               mem[key] # <<>>
       ELSE /\ mem[<<"projects", "location">>] # <<>>
            /\ PathState(GetItem(mem, <<"projects", "location">>).val)
                   \in {"dir", "absent"}

\* C15: is_valid is true exactly when the version is the current one and
\* every mandatory field is set (for a configuration: the location, whose
\* folder exists or can be made), and false in every other state.
\* The code does not keep it: with a location that names a regular file
\* is_valid raises FileExistsError.
IsValidExact ==
    sret.op = "is_valid"
        => /\ sret.err = "none"
           /\ sret.val = IF ShouldBeValid THEN TrueString ELSE FalseString

\* C16: reset copies the configuration file, if there is one, unchanged to
\* the backup, and leaves the file and the store in memory with the defaults:
\* the current version, an empty projects.location, and so a store that is
\* not valid.
ResetRestoresDefaults ==
    [][sret'.op = "reset"
          => /\ file.exists
                  => sret'.backup = [has |-> TRUE, data |-> file.data]
             /\ ~file.exists => ~sret'.backup.has
             /\ file'.exists /\ file'.data = mem'
             /\ DOMAIN mem' = DOMAIN ConfigDefault
             /\ mem'[<<"metadata", "version">>] = VersionString
             /\ \A key \in { <<"projects", "location">>,
                             <<"projects", "external_data">>,
                             <<"tools", "git_path">> } : mem'[key] = <<>>
             /\ \A key \in { <<"tools", "use_git">>,
                             <<"tools", "git_ignore_data">> } :
                   mem'[key] = TrueString
             /\ Validate(kind, mem') = [err |-> "none", val |-> FalseString]]_vars

\* A configuration with a location was reset: the backup holds the
\* location, the store does not
ConfigurationReset ==
    /\ sret.op = "reset"
    /\ sret.backup.has
    /\ sret.backup.data[<<"projects", "location">>] # <<>>
    /\ mem[<<"projects", "location">>] = <<>>
    /\ file.data[<<"projects", "location">>] = <<>>

----------------------------------------------------------------------------
(* Two parser objects on one file (checked under SpecHandles).  The        *)
(* configuration parser is a singleton, ConfigurationParser() returns the  *)
(* one object of the process; MetadataParser(folder) makes a new object    *)
(* with its own ConfigParser at every call.                                *)

\* Two calls of the constructor of a store of kind k give the same object
SameObject(k) == k = "config"

\* The handles
Handles == {1, 2}

\* The in-memory store behind handle h
Memory(h) == IF h = 1 \/ SameObject(kind) THEN mem ELSE mem2

\* The keys and values the handles are tried with
HandleKeys(k) ==
    IF k = "metadata" THEN { <<"project", "title">>, <<"user", "name">> }
    ELSE { <<"projects", "location">>, <<"tools", "git_path">> }

HandleValues == { <<"J", "ö">>, <<"n", "e", "w">>, <<>> }

\* handle[key] = v, through handle h
HandleSet(h, parts, v) ==
    /\ nops < MaxOps
    /\ LET m == Memory(h)
           e == SetItemError(m, parts, v)
           after == SetItem(m, parts, v)
       IN  /\ IF h = 1 \/ SameObject(kind)
              THEN mem' = after /\ mem2' = mem2
              ELSE mem2' = after /\ mem' = mem
           /\ file' = IF e = "none" THEN [exists |-> TRUE, data |-> after]
                      ELSE file
           /\ sret' = [op |-> "set", key |-> parts, value |-> v,
                       err |-> e, val |-> <<>>, backup |-> NoBackup]
           /\ lastSet' = IF e = "none"
                         THEN Recorded(lastSet, after, {Addressed(parts)})
                         ELSE lastSet
    /\ nops' = nops + 1
    /\ UNCHANGED <<kind, regVars>>

\* handle[key], through handle h
HandleGet(h, parts) ==
    /\ nops < MaxOps
    /\ LET r == GetItem(Memory(h), parts)
       IN  sret' = [op |-> "get", key |-> parts, value |-> <<>>,
                    err |-> r.err, val |-> r.val, backup |-> NoBackup]
    /\ nops' = nops + 1
    /\ UNCHANGED <<kind, mem, mem2, file, lastSet, regVars>>

NextHandles ==
    \/ \E h \in Handles, parts \in HandleKeys(kind), v \in HandleValues :
          HandleSet(h, parts, v)
    \/ \E h \in Handles, parts \in HandleKeys(kind) : HandleGet(h, parts)

SpecHandles == InitStore /\ [][NextHandles]_vars

\* C17: two stores opened on one file are one object: a get through either
\* handle returns the value last set through any handle, and the file holds
\* the last value set of every key.
\* The code does not keep it for the metadata store: MetadataParser is no
\* singleton, and each object writes its own copy of all the keys.
HandlesAgree ==
    /\ sret.op = "get" /\ lastSet[sret.key].has
          => sret.val = lastSet[sret.key].v
    /\ \A key \in DOMAIN lastSet :
          lastSet[key].has => file.data[key] = lastSet[key].v

----------------------------------------------------------------------------
(* Version control and the counter file (checked under Spec).              *)

\* The folder the last project create has made
CreatedFolder == tree[ret.path]

\* C18: with use_git on and no git executable resolved (none on the path,
\* or a configured path that is no file), a create without external
\* repositories runs to its end, writes no .gitignore and runs no git init.
\* The code does not keep it: when git is not on the path and no path is
\* configured, git_path is None, not "", so .gitignore is written and the
\* call of git raises FileNotFoundError.
NoGitSkipsVcs ==
    (ret.op = "create" /\ ret.init \in {"None", "raised"}
     /\ env.use_git /\ ~env.extern_repos /\ GitPath(env) \in {"None", ""})
        => /\ ret.init = "None"
           /\ ~CreatedFolder.gitignore
           /\ CreatedFolder.vcs = <<>>

\* C19: with use_git off, a create runs no version-control step, whatever
\* the other inputs: no .gitignore, no git command, no failed call of git.
\* The code does not keep it: the external repositories are added as
\* submodules without a look at use_git.
NoVcsWhenDisabled ==
    (ret.op = "create" /\ ret.init \in {"None", "raised"} /\ ~env.use_git)
        => /\ ~CreatedFolder.gitignore
           /\ CreatedFolder.vcs = <<>>
           /\ ret.err # "FileNotFoundError"

\* The line is "last_id=" followed by an integer in decimal digits
WellShaped(line) ==
    /\ Len(line) > Len(LastIdPrefix)
    /\ SubSeq(line, 1, Len(LastIdPrefix)) = LastIdPrefix
    /\ LET rest == SubSeq(line, Len(LastIdPrefix) + 1, Len(line))
           digits == IF Head(rest) = "-" THEN Tail(rest) ELSE rest
       IN  digits # <<>> /\ \A i \in 1..Len(digits) : IsDigit(digits[i])

\* C20: when the line of <root>/.projects is not "last_id=<integer>",
\* get_last_id, update_last_id and project create end in ValueError and
\* the file stays as it is.
CorruptCounterSurfaced ==
    [][(counter.exists /\ ~WellShaped(counter.line)
        /\ ret'.op \in {"get_last_id", "update_last_id", "create"})
          => (ret'.err = "ValueError" /\ counter' = counter)]_vars

\* update_last_id has failed on a counter file that is still corrupt
CorruptCounterMet ==
    /\ ret.op = "update_last_id" /\ ret.err = "ValueError"
    /\ counter.exists /\ ~WellShaped(counter.line)

----------------------------------------------------------------------------
(* The external data folder, lookup and the ids of created projects        *)
(* (checked under Spec).                                                   *)

\* C21: a create whose Project.init ran to its end adds to the external
\* data root exactly the folder <year>/<month>/<project folder> of the
\* project it made, and nothing below it, if an external data root is
\* configured; with none configured nothing outside the projects root is
\* made.
ExternalMirror ==
    [][(ret'.op = "create" /\ ret'.init = "None")
          => extdirs' = IF env.extern_data THEN extdirs \cup {ret'.path}
                        ELSE extdirs]_vars

\* A project was created together with its external data folder
ExternalFolderMade ==
    /\ ret.op = "create" /\ ret.init = "None"
    /\ env.extern_data
    /\ ret.path \in extdirs /\ ret.path \in DOMAIN tree

\* C22: get_project_path_by_id returns "" exactly when no entry under a
\* valid year and month has a name that contains the id, and for an id that
\* is the full folder name of an existing project it returns the path of
\* the folder of that name.
\* The code does not keep the second part: it returns the first entry whose
\* name contains the id, and "P_1000" is contained in "P_10000".
LookupFindsNamedProject ==
    ret.op = "get_project_path_by_id"
        => LET id == ret.filter[1]
               named == {p \in Candidates(tree, counter) : p[3] = id}
               holding == {p \in Candidates(tree, counter) : Contains(p[3], id)}
           IN  /\ ret.path = <<>> <=> holding = {}
               /\ named # {} => ret.path \in named

InitResultTellsCreation ==
    [][(ret'.op = "create" /\ ret'.init \notin {"", "raised"})
          => /\ ret'.init = "True"
                  <=> /\ ret'.path \notin DOMAIN tree
                      /\ ret'.path \in DOMAIN tree'
                      /\ tree'[ret'.path].meta.state = "ok"
                      /\ tree'[ret'.path].descr.exists
             /\ ret'.init = "False"
                  <=> (ret'.path \in DOMAIN tree /\ tree' = tree)]_vars

----------------------------------------------------------------------------
(* Two create commands side by side on one root.  Each runs the calls of   *)
(* the command in their order, get_last_id, Project.init, update_last_id;  *)
(* the calls of the two interleave freely, since no call takes a lock.     *)

\* last_id = GlobalMetadataManager.get_last_id(projects_location)
RaceRead(i) ==
    LET r == get_last_id(counter)
    IN  /\ procs[i].pc = "start"
        /\ counter' = Touched(counter)
        /\ procs' = [procs EXCEPT ![i] =
                        IF r.err # "none" THEN [@ EXCEPT !.pc = "failed"]
                        ELSE [@ EXCEPT !.pc = "read", !.last = r.val]]
        /\ UNCHANGED <<tree, extdirs, env, ret, hist, obj, storeVars>>

\* project_id = last_id + 1, Project(...), project.init()
RaceInit(i, a, date) ==
    LET p == ProjectRootDir(date, ProjectDir(ProjectId(procs[i].last)))
        r == Project_init(tree, p, a, date, env)
    IN  /\ procs[i].pc = "read"
        /\ tree' = IF r.result # "False" THEN WithFolder(tree, p, r.folder)
                   ELSE tree
        /\ extdirs' = IF r.ext
                      THEN extdirs \cup {ExternDataDir(date, ProjectDir(ProjectId(procs[i].last)))}
                      ELSE extdirs
        /\ procs' = [procs EXCEPT ![i] =
                        [@ EXCEPT !.pc = IF r.result = "raised" THEN "failed"
                                         ELSE "made",
                                  !.path = p, !.init = r.result]]
        /\ UNCHANGED <<counter, env, ret, hist, obj, storeVars>>

\* GlobalMetadataManager.update_last_id(projects_location)
RaceUpdate(i) ==
    /\ procs[i].pc = "made"
    /\ counter' = update_last_id(counter)
    /\ procs' = [procs EXCEPT ![i] = [@ EXCEPT !.pc = "done"]]
    /\ UNCHANGED <<tree, extdirs, env, ret, hist, obj, storeVars>>

NextRace ==
    \/ \E i \in Procs : RaceRead(i)
    \/ \E i \in Procs, a \in Arguments, date \in Dates : RaceInit(i, a, date)
    \/ \E i \in Procs : RaceUpdate(i)

SpecRace == Init /\ [][NextRace]_vars

\* C25: nothing keeps two create commands apart: when both have read
\* last_id and neither has yet advanced the counter, both hold the same
\* last_id and so compute the same project id.
RaceSameId ==
    (\A i \in Procs : procs[i].pc \in {"read", "made"})
        => ProjectId(procs[1].last) = ProjectId(procs[2].last)

\* Both commands have run Project.init for the same id and neither has
\* advanced the counter
SameIdComputedTwice ==
    /\ \A i \in Procs : procs[i].pc = "made"
    /\ procs[1].path # <<>> /\ procs[2].path # <<>>
    /\ procs[1].path[3] = procs[2].path[3]

----------------------------------------------------------------------------
(* A create that is stopped before its end (the process is killed).        *)

\* The steps of Project.init after which the command may be stopped: the
\* project folder made, its sub-folders made, the metadata written, the
\* description written, init at its end (update_last_id still to come)
InterruptStages == {"root", "folders", "metadata", "description", "init"}

\* The cap on the creates that are stopped in one behaviour
MaxPartial == 1

\* The project folder as an init leaves it that is stopped after stage
PartialFolder(t, p, a, date, cfg, stage) ==
    LET f0 == FolderAt(t, p)
        f1 == [f0 EXCEPT !.subdirs = f0.subdirs \cup Subfolders]
        m == write_metadata_to_file(f1.meta, a, date)
        f2 == [f1 EXCEPT !.meta = m.meta]
        f3 == [f2 EXCEPT !.descr = write_description_to_file(f2.descr, a)]
    IN  CASE stage = "root" -> f0
          [] stage = "folders" -> f1
          [] stage = "metadata" -> f2
          [] stage = "description" -> f3
          [] OTHER -> Project_init(t, p, a, date, cfg).folder

\* The command "project create", stopped after stage.  It has read last_id
\* and made the project folder, so the folder was not there; it has not
\* reached update_last_id.
InterruptedCreate(a, date, stage) ==
    LET r == get_last_id(counter)
        dir == ProjectDir(ProjectId(r.val))
        p == ProjectRootDir(date, dir)
    IN  /\ Cardinality(hist.partial) < MaxPartial
        /\ r.err = "none" /\ r.val < MaxId
        /\ ~TargetExists(tree, p)
        /\ stage = "init" => Project_init(tree, p, a, date, env).result = "None"
        /\ counter' = Touched(counter)
        /\ tree' = WithFolder(tree, p, PartialFolder(tree, p, a, date, env, stage))
        /\ extdirs' = IF env.extern_data /\ stage # "root"
                      THEN extdirs \cup {ExternDataDir(date, dir)} ELSE extdirs
        /\ ret' = [NoRet EXCEPT !.op = "interrupted", !.path = p]
        /\ hist' = [hist EXCEPT !.pure = FALSE, !.only = FALSE,
                                !.partial = @ \cup {p},
                                !.has = TRUE, !.expect = r.val]
        /\ UNCHANGED <<env, procs, obj, storeVars>>

\* Creates that run to their end, creates that are stopped, and lists
NextInterrupt ==
    \/ \E a \in Arguments, date \in Dates : Create(a, date)
    \/ GetProjects(<<>>)
    \/ \E a \in Arguments, date \in Dates, stage \in InterruptStages :
          InterruptedCreate(a, date, stage)

\* The start states in which no path to git is configured and no external
\* repository is given
InitInterrupt == Init /\ ~env.git_cfg /\ ~env.extern_repos

SpecInterrupt == InitInterrupt /\ [][NextInterrupt]_vars

\* C26: the folder a stopped create has left stays as it is: no later
\* operation completes, changes or removes it, and the Project.init of
\* every later create that targets it returns False (AlreadyExists).
PartialProjectKept ==
    [][\A p \in hist.partial :
          /\ p \in DOMAIN tree' /\ tree'[p] = tree[p]
          /\ (ret'.op = "create" /\ ret'.path = p) => ret'.init = "False"]_vars

\* A create has targeted a folder that a stopped create left without
\* metadata
PartialProjectRetried ==
    /\ ret.op = "create" /\ ret.init = "False"
    /\ ret.path \in hist.partial
    /\ tree[ret.path].meta.state = "absent"

----------------------------------------------------------------------------
(* The command create and the result of Project.init (checked under Spec). *)

QueriesReadOnly ==
    [][(ret'.op \in {"get_projects", "get_project_path_by_id"})
          => (tree' = tree /\ counter' = counter /\ extdirs' = extdirs)]_vars

----------------------------------------------------------------------------
(* The default metadata record (checked under Spec).                       *)

\* C29: the record a MetadataParser writes when it is made on a project
\* folder without a metadata file (as the list makes one for a candidate)
\* holds the current version, and the empty string in every other field,
\* so that it is not valid.
\* The code does not keep it: _write_default sets user.email, user.group and
\* user.collaborators to "True".
DefaultRecordEmpty ==
    [][\A p \in DOMAIN tree :
          (ret'.op = "get_projects" /\ tree[p].meta.state = "absent"
           /\ tree'[p].meta.state = "ok")
             => LET d == tree'[p].meta.data
                IN  /\ d[<<"metadata", "version">>] = VersionString
                    /\ \A k \in MetadataValidKeys \ { <<"metadata", "version">> } :
                          d[k] = <<>>
                    /\ MetadataValidate(ReadFile(d)).val = FalseString]_vars

----------------------------------------------------------------------------
(* A Project object in the hands of a caller: the constructor, init and    *)
(* set_extern_git_repos, in any order.                                     *)

\* The cap on the calls of set_extern_git_repos on one object
MaxCalls == 2

\* The arguments of the constructor; repos tells whether extern_git_repos
\* names a repository
ObjectArguments(repos) ==
    [title |-> <<"A">>, user_name |-> <<"u">>, user_email |-> <<"e">>,
     user_group |-> <<"g">>, short_descr |-> <<"d">>,
     extern_git_repos |-> repos]

\* Project(parent_dir, project_dir, ..., extern_git_repos=repos) on day date
ObjNew(date, repos) ==
    /\ obj' = [NoObject EXCEPT !.made = TRUE, !.repos = repos, !.date = date,
                               !.path = ProjectRootDir(date, ProjectDir(0))]
    /\ ret' = [NoRet EXCEPT !.op = "Project"]
    /\ UNCHANGED <<counter, tree, extdirs, env, hist, procs, storeVars>>

\* project.init()
ObjInit ==
    LET r == Project_init(tree, obj.path, ObjectArguments(obj.repos),
                          obj.date, env)
    IN  /\ obj.made
        /\ tree' = IF r.result # "False" THEN WithFolder(tree, obj.path, r.folder)
                   ELSE tree
        /\ extdirs' = IF r.ext
                      THEN extdirs \cup {ExternDataDir(obj.date, ProjectDir(0))}
                      ELSE extdirs
        /\ obj' = [obj EXCEPT !.is_init = @ \/ InitFlag(r.result),
                              !.init = r.result,
                              !.ok = @ \/ r.result = "None"]
        /\ ret' = [NoRet EXCEPT !.op = "init", !.err = r.err,
                                !.path = obj.path, !.init = r.result]
        /\ UNCHANGED <<counter, env, hist, procs, storeVars>>

\* project.set_extern_git_repos(extern_git_repos); asked tells whether the
\* argument names a repository
ObjSetExternGitRepos(asked) ==
    /\ obj.made /\ obj.calls < MaxCalls
    /\ IF ~obj.is_init
       THEN /\ obj' = [obj EXCEPT !.asked = asked, !.calls = @ + 1]
            /\ tree' = tree
            /\ ret' = [NoRet EXCEPT !.op = "set_extern_git_repos",
                                    !.path = obj.path]
       ELSE LET f == tree[obj.path]
                x == set_extern_git_projects(f.vcs, ObjectArguments(asked), env)
            IN  /\ obj' = [obj EXCEPT !.asked = asked, !.calls = @ + 1,
                                      !.repos = asked]
                /\ tree' = WithFolder(tree, obj.path, [f EXCEPT !.vcs = x.vcs])
                /\ ret' = [NoRet EXCEPT !.op = "set_extern_git_repos",
                                        !.err = x.err, !.path = obj.path]
    /\ UNCHANGED <<counter, extdirs, env, hist, procs, storeVars>>

NextObject ==
    \/ \E date \in Dates, repos \in BOOLEAN : ObjNew(date, repos)
    \/ ObjInit
    \/ \E asked \in BOOLEAN : ObjSetExternGitRepos(asked)

SpecObject == Init /\ [][NextObject]_vars

\* C30: as long as no init of the object has run to its end (before init,
\* and after an init that returned False because the folder was there),
\* set_extern_git_repos changes neither the object's list of repositories
\* nor anything on disk, and runs no git command.
SetExternNeedsInit ==
    [][(ret'.op = "set_extern_git_repos" /\ ~obj.ok)
          => /\ obj'.repos = obj.repos
             /\ tree' = tree /\ counter' = counter /\ extdirs' = extdirs
             /\ ret'.err = "none"]_vars

\* set_extern_git_repos was called with a repository on an object whose
\* init had found the folder and whose list was empty
SetExternAfterFailedInit ==
    /\ ret.op = "set_extern_git_repos"
    /\ obj.init = "False" /\ ~obj.ok
    /\ obj.asked /\ ~obj.repos

====
